---- MODULE Spec2Model ----
(***************************************************************************)
(* A model of the mslearn / matbench pipeline glue code:                   *)
(*   - the base classes DataframeTransformer and AutoMLAdaptor             *)
(*     (matbench/base.py) together with the concrete transformers and      *)
(*     adaptors of mslearn/tests/test_base.py;                             *)
(*   - MatPipe (mslearn/pipeline.py): fit, predict, benchmark, digest;     *)
(*   - Featurize (matbench/featurize.py) and the dataset meta-features    *)
(*     (matbench/metalearning/metafeatures.py), each under a specification  *)
(*     of its own further down.                                            *)
(* Every method is an operator from (object state, inputs) to a return    *)
(* record [self, exc, result, calls]: the object state after the call,    *)
(* the exception raised ("ok" when the call returned), the returned frame  *)
(* and the methods of the object's pipeline stages that the call invoked.  *)
(***************************************************************************)
EXTENDS Integers, Sequences, FiniteSets, TLC

VARIABLES
    obj,      \* the object under test: a transformer, an adaptor or a MatPipe
    last,     \* the last call made: what was called, with what, and how it ended
    fitted,   \* history: some fit or benchmark of obj has returned normally
    clears_first  \* whether set_fitted assigns is_fit = False before the call

vars == <<obj, last, fitted, clears_first>>

(***************************************************************************)
(* Dataframes.  A frame is its set of column labels, its rows (a sequence  *)
(* of row labels, so that positional indexing can be modelled) and the     *)
(* sequence of pipeline stages that have transformed it.                   *)
(***************************************************************************)
Cols == {"a", "b", "c"}

ColOrder == <<"a", "b", "c">>

NBaseRows == 3

DF(cols, rows, hist) == [cols |-> cols, rows |-> rows, hist |-> hist]

NoDF == DF({}, <<>>, <<>>)

Iota(n) == [i \in 1..n |-> i]

TestDF(cols) == DF(cols, Iota(NBaseRows), <<>>)

\* df.columns.tolist()
ColumnList(df) == SelectSeq(ColOrder, LAMBDA c : c \in df.cols)

\* df.drop(columns=[c]) on a frame that has column c
DropColumn(df, c) == [df EXCEPT !.cols = @ \ {c}]

Range(s) == {s[i] : i \in DOMAIN s}

(***************************************************************************)
(* Return records.                                                         *)
(***************************************************************************)
Ret(self, exc, result) ==
    [self |-> self, exc |-> exc, result |-> result, calls |-> <<>>]

Raise(self, exc) == Ret(self, exc, NoDF)

\* The call as it stands before the wrapped method has run.
NotRun(self) == Ret(self, "ok", NoDF)

(***************************************************************************)
(* mslearn.utils.package_tools: the two decorators.  check_fitted refuses  *)
(* the call on an object whose is_fit is false, before the wrapped method  *)
(* runs (r0 is the call not yet run, r the wrapped method's return);       *)
(* set_fitted marks the object fitted once the wrapped method has          *)
(* returned.  What set_fitted leaves in is_fit when the wrapped method     *)
(* raises is not settled by the callers and tests: a decorator that only   *)
(* assigns is_fit = True after the call leaves is_fit as it was, one that  *)
(* first assigns is_fit = False leaves it false.  Both are kept:           *)
(* clears_first says which decorator the program runs with, and never      *)
(* changes.                                                                *)
(***************************************************************************)
check_fitted(r0, r) ==
    IF ~r0.self.is_fit THEN [r0 EXCEPT !.exc = "NotFittedError"] ELSE r

set_fitted(r) ==
    IF r.exc = "ok" THEN [r EXCEPT !.self.is_fit = TRUE]
    ELSE IF clears_first THEN [r EXCEPT !.self.is_fit = FALSE]
    ELSE r

(***************************************************************************)
(* Attribute values of the adaptors.                                       *)
(***************************************************************************)
AttrNames == {"_features", "_ml_data", "_best_models", "_backend"}

PropertyAttr ==
    [features |-> "_features", ml_data |-> "_ml_data",
     best_models |-> "_best_models", backend |-> "_backend"]

PropertyNames == DOMAIN PropertyAttr

PyNone == [none |-> TRUE, val |-> <<>>]

PyVal(v) == [none |-> FALSE, val |-> v]

(***************************************************************************)
(* test_base.py: the objects the tests construct.                          *)
(***************************************************************************)
ConfigAttr == 5

TestTransformerGood_init ==
    [kind |-> "TestTransformerGood", config_attr |-> ConfigAttr,
     target |-> "None", is_fit |-> FALSE]

TestTransformerBad_init == [kind |-> "TestTransformerBad"]

TestAdaptorBad_init == [kind |-> "TestAdaptorBad", attrs |-> <<>>]

TestAdaptorGood_init ==
    [kind |-> "TestAdaptorGood", config_attr |-> ConfigAttr,
     target |-> "None", is_fit |-> FALSE,
     attrs |-> [n \in AttrNames |-> PyNone]]

\* TestTransformerGood.fit, under @set_fitted
TestTransformerGood_fit(self, df, target) ==
    set_fitted(IF target \in df.cols
               THEN Ret([self EXCEPT !.target = target], "ok", NoDF)
               ELSE Raise(self, "ValueError"))

\* df.drop(columns=self.target): pandas raises KeyError for a missing label
DropFitted(self, df) ==
    IF self.target \in df.cols
    THEN Ret(self, "ok", DropColumn(df, self.target))
    ELSE Raise(self, "KeyError")

\* TestTransformerGood.transform, under @check_fitted
TestTransformerGood_transform(self, df, target) ==
    check_fitted(NotRun(self), DropFitted(self, df))

\* TestAdaptorGood.fit, under @set_fitted
TestAdaptorGood_fit(self, df, target) ==
    set_fitted(
        IF target \in df.cols
        THEN LET X == DropColumn(df, target) IN
             Ret([self EXCEPT
                    !.target = target,
                    !.attrs = [n \in AttrNames |->
                        CASE n = "_best_models" -> PyVal(<<"model1", "model2">>)
                          [] n = "_ml_data" ->
                                PyVal(<<"y", target, "X">> \o ColumnList(X))
                          [] n = "_backend" -> PyVal(<<"mybackend">>)
                          [] n = "_features" -> PyVal(ColumnList(X))]],
                 "ok", NoDF)
        ELSE Raise(self, "ValueError"))

\* TestAdaptorGood.predict, under @check_fitted
TestAdaptorGood_predict(self, df, target) ==
    check_fitted(NotRun(self), DropFitted(self, df))

(***************************************************************************)
(* The stage classes of the pipeline (AutoFeaturizer, DataCleaner,         *)
(* FeatureReducer: transformers; TPOTAdaptor: the learner).  A stage       *)
(* validates that the target column is present when it is fitted, and      *)
(* once fitted maps a frame to a frame, which is recorded in the frame's   *)
(* history; the learner's predict adds the prediction column.              *)
(***************************************************************************)
StageNames == <<"autofeaturizer", "cleaner", "reducer", "learner">>

\* The learner carries the attribute mode, which MatPipe.__init__ reads.
Stage_init(name) ==
    IF name = "learner"
    THEN [kind |-> "Learner", name |-> name, is_fit |-> FALSE, mode |-> "None"]
    ELSE [kind |-> "Stage", name |-> name, is_fit |-> FALSE]

Stage_fit(self, df, target) ==
    set_fitted(IF target \in df.cols THEN Ret(self, "ok", NoDF)
               ELSE Raise(self, "ValueError"))

Stage_transform(self, df, target) ==
    check_fitted(NotRun(self),
                 Ret(self, "ok", [df EXCEPT !.hist = Append(@, self.name)]))

Learner_predict(self, df, target) ==
    check_fitted(NotRun(self),
                 Ret(self, "ok", [df EXCEPT !.hist = Append(@, self.name),
                                            !.cols = @ \cup {"predicted"}]))

(***************************************************************************)
(* matbench/base.py: DataframeTransformer and AutoMLAdaptor.               *)
(***************************************************************************)
\* Mutant: a base fit that returns self, as scikit-learn's transformers do.
DataframeTransformer_fit_returns_self(self, df, target) == NotRun(self)

DataframeTransformer_fit(self, df, target) == Raise(self, "NotImplementedError")

DataframeTransformer_transform(self, df, target) ==
    Raise(self, "NotImplementedError")

AutoMLAdaptor_predict(self, df, target) == Raise(self, "NotImplementedError")

IsAdaptor(self) == self.kind \in {"TestAdaptorGood", "TestAdaptorBad", "Learner"}

\* Method resolution for fit: the subclass's own fit, else the base class's.
\* (MatPipe, whose methods call the stages' methods, is resolved below.)
Fit(self, df, target) ==
    CASE self.kind = "TestTransformerGood" ->
            TestTransformerGood_fit(self, df, target)
      [] self.kind = "TestAdaptorGood" -> TestAdaptorGood_fit(self, df, target)
      [] self.kind \in {"Stage", "Learner"} -> Stage_fit(self, df, target)
      [] OTHER -> DataframeTransformer_fit(self, df, target)

\* Method resolution for predict; DataframeTransformer declares no predict.
Predict(self, df, target) ==
    CASE self.kind = "TestAdaptorGood" -> TestAdaptorGood_predict(self, df, target)
      [] self.kind = "TestAdaptorBad" -> AutoMLAdaptor_predict(self, df, target)
      [] self.kind = "Learner" -> Learner_predict(self, df, target)
      [] OTHER -> Raise(self, "AttributeError")

\* Mutant: AutoMLAdaptor without its transform override.
AutoMLAdaptor_transform_inherited(self, df, target) ==
    Raise(self, "NotImplementedError")

\* AutoMLAdaptor.transform: return self.predict(df, target)
AutoMLAdaptor_transform(self, df, target) == Predict(self, df, target)

\* Method resolution for transform.
Transform(self, df, target) ==
    CASE self.kind = "TestTransformerGood" ->
            TestTransformerGood_transform(self, df, target)
      [] self.kind = "Stage" -> Stage_transform(self, df, target)
      [] IsAdaptor(self) -> AutoMLAdaptor_transform(self, df, target)
      [] OTHER -> DataframeTransformer_transform(self, df, target)

\* <fit's return>.transform(df, target): f is what fit returned (self, or
\* an exception), t what transform on the fitted object returns.
ThenTransform(f, t) ==
    IF f.exc # "ok" THEN f ELSE [t EXCEPT !.calls = f.calls \o @]

\* Mutant: fit_transform that transforms without fitting first.
DataframeTransformer_fit_transform_no_fit(self, df, target) ==
    Transform(self, df, target)

\* DataframeTransformer.fit_transform
DataframeTransformer_fit_transform(self, df, target) ==
    LET f == Fit(self, df, target) IN
    ThenTransform(f, Transform(f.self, df, target))

\* Mutant: the property without its try/except.
AutoMLAdaptor_property_uncaught(self, prop) ==
    IF PropertyAttr[prop] \in DOMAIN self.attrs
    THEN [exc |-> "ok", value |-> self.attrs[PropertyAttr[prop]]]
    ELSE [exc |-> "AttributeError", value |-> PyNone]

\* The AutoMLAdaptor properties: try: return self._x; except AttributeError
AutoMLAdaptor_property(self, prop) ==
    IF PropertyAttr[prop] \in DOMAIN self.attrs
    THEN [exc |-> "ok", value |-> self.attrs[PropertyAttr[prop]]]
    ELSE [exc |-> "NotImplementedError", value |-> PyNone]

\* A method call by name.
Dispatch(self, op, df, target) ==
    CASE op = "fit" -> Fit(self, df, target)
      [] op = "transform" -> Transform(self, df, target)
      [] op = "predict" -> Predict(self, df, target)
      [] op = "fit_transform" ->
            DataframeTransformer_fit_transform(self, df, target)

(***************************************************************************)
(* mslearn/pipeline.py: MatPipe.  The stage objects are attributes of the  *)
(* pipe (self.stages[name] stands for self.<name>).                        *)
(***************************************************************************)
\* mslearn.utils.ml_tools.regression_or_classification(df[target])
regression_or_classification(df, target) ==
    IF target = "b" THEN "classification" ELSE "regression"

\* balanced_preset, lines 22-25: four stage objects made once, when the
\* module is imported; every MatPipe that is not given a stage of its own
\* holds the same objects.
balanced_preset == [n \in Range(StageNames) |-> Stage_init(n)]

\* What balanced_preset can have become when a pipe is constructed or
\* called: other pipes of the process may have fitted any of its stages.
Presets ==
    {[n \in Range(StageNames) |-> [balanced_preset[n] EXCEPT !.is_fit = f[n]]] :
        f \in [Range(StageNames) -> BOOLEAN]}

\* The stages of a pipe that are the objects of balanced_preset.
IsPresetStage(stage) == stage.kind \in {"Stage", "Learner"}

\* MatPipe.__init__, lines 85-105 (the logger and persistence_lvl are left
\* out): given[n] is the object passed for stage n, PyNone for none;
\* self.learner.mode is an AttributeError for a learner without mode.
MatPipe_new(preset, given) ==
    LET stages == [n \in Range(StageNames) |->
                      IF given[n].none THEN preset[n] ELSE given[n].val]
    IN  IF "mode" \notin DOMAIN stages["learner"]
        THEN Raise(PyNone, "AttributeError")
        ELSE Ret([kind |-> "MatPipe", is_fit |-> FALSE, pre_fit_df |-> NoDF,
                  post_fit_df |-> NoDF, ml_type |-> stages["learner"].mode,
                  stages |-> stages],
                 "ok", NoDF)

\* MatPipe()
MatPipe_init(preset) ==
    MatPipe_new(preset, [n \in Range(StageNames) |-> PyNone]).self

\* One statement "self.<stage>.<op>(df, target)" of a MatPipe method: the
\* stage object may change, the call is logged, and an exception ends the
\* method.
StageStatement(r, s, op, df, target, q) ==
    [self |-> [r.self EXCEPT !.stages[s] = q.self],
     exc |-> q.exc,
     result |-> q.result,
     calls |-> Append(r.calls, [stage |-> s, op |-> op, df |-> df,
                                target |-> target])]

StageCall(before, s, op, df, target) ==
    CHOOSE after \in
        {IF r.exc # "ok" THEN r
         ELSE StageStatement(r, s, op, df, target,
                             Dispatch(r.self.stages[s], op, df, target)) :
            r \in {before}} : TRUE

\* Mutant: the learner fitted on the cleaned frame, not the reduced one.
FitStages_unreduced(self, df, target) ==
    LET c1 == StageCall(NotRun(self), "autofeaturizer", "fit_transform",
                        df, target)
        c2 == StageCall(c1, "cleaner", "fit_transform", c1.result, target)
        c3 == StageCall(c2, "reducer", "fit_transform", c2.result, target)
        c4 == StageCall(c3, "learner", "fit", c2.result, target)
    IN  IF c4.exc = "ok"
        THEN [c4 EXCEPT !.self.post_fit_df = c3.result, !.result = NoDF]
        ELSE [c4 EXCEPT !.result = NoDF]

\* MatPipe.fit, lines 138-143
FitStages(self, df, target) ==
    LET c1 == StageCall(NotRun(self), "autofeaturizer", "fit_transform",
                        df, target)
        c2 == StageCall(c1, "cleaner", "fit_transform", c1.result, target)
        c3 == StageCall(c2, "reducer", "fit_transform", c2.result, target)
        c4 == StageCall(c3, "learner", "fit", c3.result, target)
    IN  IF c4.exc = "ok"
        THEN [c4 EXCEPT !.self.post_fit_df = c3.result, !.result = NoDF]
        ELSE [c4 EXCEPT !.result = NoDF]

\* MatPipe.fit, under @set_fitted
MatPipe_fit(self, df, target) ==
    set_fitted(
        LET p1 == [self EXCEPT !.pre_fit_df = df] IN
        IF target \notin df.cols
        THEN Raise(p1, "KeyError")
        ELSE FitStages([p1 EXCEPT !.ml_type =
                            regression_or_classification(df, target)],
                       df, target))

\* MatPipe.predict, lines 166-171
PredictStages(self, df, target) ==
    LET c1 == StageCall(NotRun(self), "autofeaturizer", "transform", df, target)
        c2 == StageCall(c1, "cleaner", "transform", c1.result, target)
        c3 == StageCall(c2, "reducer", "transform", c2.result, target)
    IN  StageCall(c3, "learner", "predict", c3.result, target)

\* Mutant: predict without the @check_fitted decorator.
MatPipe_predict_undecorated(self, df, target) ==
    PredictStages(self, df, target)

\* MatPipe.predict, under @check_fitted
MatPipe_predict(self, df, target) ==
    check_fitted(NotRun(self), PredictStages(self, df, target))

\* MatPipe.digest, under @check_fitted: a text summary; no attribute is set
MatPipe_digest(self) == check_fitted(NotRun(self), NotRun(self))

\* MatPipe inherits transform and fit_transform from DataframeTransformer.
MatPipe_fit_transform(self, df, target) ==
    LET f == MatPipe_fit(self, df, target) IN
    ThenTransform(f, DataframeTransformer_transform(f.self, df, target))

(***************************************************************************)
(* MatPipe.benchmark.  test_spec is a float (zero or a fraction) or a list  *)
(* of row positions ix; a list is an Iterable.                             *)
(***************************************************************************)
FloatSpec(zero) == [kind |-> "float", zero |-> zero, ix |-> <<>>]

PositionSpec(ix) == [kind |-> "positions", zero |-> FALSE, ix |-> ix]

NoSpec == [kind |-> "None", zero |-> FALSE, ix |-> <<>>]

\* isinstance(test_spec, Iterable)
IsIterable(test_spec) == test_spec.kind = "positions"

\* An indexer handed to df.iloc: a boolean array or an integer array.
BoolIndex(b) == [bool |-> TRUE, b |-> b, i |-> <<>>]

IntIndex(i) == [bool |-> FALSE, b |-> <<>>, i |-> i]

\* msk = test_spec for a list
ListIndex(test_spec) == IntIndex(test_spec.ix)

\* msk = np.random.rand(len(df)) < test_spec: draw[k] tells whether the k-th
\* random number fell below a nonzero fraction; none falls below zero.
RandLess(draw, test_spec) ==
    BoolIndex([k \in DOMAIN draw |-> ~test_spec.zero /\ draw[k]])

Invert_omitted(msk) == msk

\* ~np.asarray(msk): logical not of booleans, bitwise not of integers
Invert(msk) ==
    IF msk.bool THEN BoolIndex([k \in DOMAIN msk.b |-> ~msk.b[k]])
    ELSE IntIndex([k \in DOMAIN msk.i |-> -(msk.i[k]) - 1])

SelectRows(rows, b) ==
    LET keep == {k \in DOMAIN rows : b[k]}
        F[k \in 0..Len(rows)] ==
            IF k = 0 THEN <<>>
            ELSE IF k \in keep THEN Append(F[k - 1], rows[k]) ELSE F[k - 1]
    IN  F[Len(rows)]

\* df.iloc[msk]: a boolean array keeps the rows marked TRUE; an integer
\* array takes the rows at those positions, negative ones counting from the
\* end (position -1 is the last row).
Iloc(df, msk) ==
    IF msk.bool THEN [df EXCEPT !.rows = SelectRows(@, msk.b)]
    ELSE [df EXCEPT !.rows =
            [k \in DOMAIN msk.i |->
                IF msk.i[k] >= 0 THEN df.rows[msk.i[k] + 1]
                ELSE df.rows[Len(df.rows) + msk.i[k] + 1]]]

\* MatPipe.benchmark, lines 228-233: the split of the cleaned frame
TrainTest(df, test_spec, draw) ==
    LET msk == IF IsIterable(test_spec) THEN ListIndex(test_spec)
               ELSE RandLess(draw, test_spec)
    IN  [traindf |-> Iloc(df, Invert(msk)), testdf |-> Iloc(df, msk)]

\* MatPipe.benchmark, under @set_fitted
MatPipe_benchmark(self, df, target, test_spec, draw) ==
    set_fitted(
        LET c1 == StageCall(NotRun(self), "autofeaturizer", "fit_transform",
                            df, target)
            c2 == StageCall(c1, "cleaner", "fit_transform", c1.result, target)
            split == TrainTest(c2.result, test_spec, draw)
            c3 == StageCall(c2, "reducer", "fit_transform", split.traindf, target)
            c4 == StageCall(c3, "learner", "fit", c3.result, target)
        IN  IF c2.exc # "ok" THEN [c2 EXCEPT !.result = NoDF]
            ELSE IF c4.exc # "ok" THEN [c4 EXCEPT !.result = NoDF]
            ELSE IF IsIterable(test_spec) \/ ~test_spec.zero
            THEN LET c5 == StageCall(c4, "reducer", "transform",
                                     split.testdf, target)
                 IN  StageCall(c5, "learner", "predict", c5.result, target)
            ELSE StageCall(c4, "learner", "predict", c3.result, target))

(***************************************************************************)
(* Method resolution on the object under test.                             *)
(***************************************************************************)
ObjFit(self, df, target) ==
    IF self.kind = "MatPipe" THEN MatPipe_fit(self, df, target)
    ELSE Fit(self, df, target)

ObjTransform(self, df, target) ==
    IF self.kind = "MatPipe" THEN DataframeTransformer_transform(self, df, target)
    ELSE Transform(self, df, target)

ObjPredict(self, df, target) ==
    IF self.kind = "MatPipe" THEN MatPipe_predict(self, df, target)
    ELSE Predict(self, df, target)

ObjFitTransform(self, df, target) ==
    IF self.kind = "MatPipe" THEN MatPipe_fit_transform(self, df, target)
    ELSE DataframeTransformer_fit_transform(self, df, target)

(***************************************************************************)
(* The specification: one object, constructed as the tests and the         *)
(* pipeline module construct it, under every sequence of calls.  The       *)
(* objects do not interact, so a behaviour follows one of them.            *)
(***************************************************************************)
MaxRows == 3

Subseqs(n) == {SelectRows(Iota(n), b) : b \in [1..n -> BOOLEAN]}

\* The frames handed to a call: the test frame with any of its columns
\* dropped; for a MatPipe, a frame of MaxRows rows with or without column "a".
InputDFs(self) ==
    IF self.kind = "MatPipe"
    THEN {DF(c, Iota(MaxRows), <<>>) : c \in {Cols, Cols \ {"a"}}}
    ELSE {TestDF(c) : c \in SUBSET Cols}

InputTargets(self) == IF self.kind = "MatPipe" THEN {"a", "b"} ELSE Cols

\* The test_spec values for a frame of n rows: both floats and every
\* non-empty ascending list of positions 0..n-1.
InputSpecs(n) ==
    {FloatSpec(z) : z \in BOOLEAN}
    \cup {PositionSpec([k \in DOMAIN q |-> q[k] - 1]) : q \in Subseqs(n) \ {<<>>}}

\* The outcomes of np.random.rand(n) < test_spec that matter: any, when
\* test_spec is a nonzero float; the draw is not read otherwise.
InputDraws(n, test_spec) ==
    IF test_spec.kind = "float" /\ ~test_spec.zero THEN [1..n -> BOOLEAN]
    ELSE {[k \in 1..n |-> FALSE]}

NoCall ==
    [op |-> "None", df |-> NoDF, target |-> "None", test_spec |-> NoSpec,
     exc |-> "ok", result |-> NoDF, calls |-> <<>>,
     value |-> PyNone]

Init ==
    /\ obj \in {TestTransformerGood_init, TestTransformerBad_init,
                TestAdaptorGood_init, TestAdaptorBad_init}
               \cup {MatPipe_init(preset) : preset \in Presets}
    /\ last = NoCall
    /\ fitted = FALSE
    /\ clears_first \in BOOLEAN

Called(op, df, target, test_spec, r) ==
    /\ obj' = r.self
    /\ last' = [op |-> op, df |-> df, target |-> target,
                test_spec |-> test_spec, exc |-> r.exc,
                result |-> r.result, calls |-> r.calls, value |-> PyNone]
    /\ UNCHANGED clears_first

CallFit ==
    \E df \in InputDFs(obj), target \in InputTargets(obj) :
        LET r == ObjFit(obj, df, target) IN
        /\ Called("fit", df, target, NoSpec, r)
        /\ fitted' = (fitted \/ r.exc = "ok")

CallTransform ==
    \E df \in InputDFs(obj), target \in InputTargets(obj) :
        /\ Called("transform", df, target, NoSpec,
                  ObjTransform(obj, df, target))
        /\ UNCHANGED fitted

CallPredict ==
    \E df \in InputDFs(obj), target \in InputTargets(obj) :
        /\ Called("predict", df, target, NoSpec, ObjPredict(obj, df, target))
        /\ UNCHANGED fitted

\* The fit inside fit_transform has returned when fit_transform does, and
\* also when only the transform after it raises.
CallFitTransform ==
    \E df \in InputDFs(obj), target \in InputTargets(obj) :
        /\ Called("fit_transform", df, target, NoSpec,
                  ObjFitTransform(obj, df, target))
        /\ fitted' = (fitted \/ ObjFit(obj, df, target).exc = "ok")

CallBenchmark ==
    /\ obj.kind = "MatPipe"
    /\ \E df \in InputDFs(obj), target \in InputTargets(obj) :
       \E test_spec \in InputSpecs(Len(df.rows)) :
       \E draw \in InputDraws(Len(df.rows), test_spec) :
            LET r == MatPipe_benchmark(obj, df, target, test_spec, draw) IN
            /\ Called("benchmark", df, target, test_spec, r)
            /\ fitted' = (fitted \/ r.exc = "ok")

CallDigest ==
    /\ obj.kind = "MatPipe"
    /\ Called("digest", NoDF, "None", NoSpec, MatPipe_digest(obj))
    /\ UNCHANGED fitted

GetProperty ==
    \E prop \in PropertyNames :
        /\ obj.kind \in {"TestAdaptorGood", "TestAdaptorBad"}
        /\ LET r == AutoMLAdaptor_property(obj, prop) IN
           last' = [NoCall EXCEPT !.op = prop, !.exc = r.exc,
                                  !.value = r.value]
        /\ UNCHANGED <<obj, fitted, clears_first>>

\* A call on another pipe of the process fits stages of balanced_preset,
\* which are the stages of this pipe too: a stage whose fit returned is
\* fitted afterwards, and a stage whose fit raised is unfitted afterwards
\* when set_fitted clears is_fit first.
OtherPipeFits ==
    /\ obj.kind = "MatPipe"
    /\ \E g \in [Range(StageNames) -> BOOLEAN] :
            /\ \A n \in Range(StageNames) :
                    \/ g[n] = obj.stages[n].is_fit
                    \/ IsPresetStage(obj.stages[n]) /\ (g[n] \/ clears_first)
            /\ \E n \in Range(StageNames) : g[n] # obj.stages[n].is_fit
            /\ obj' = [obj EXCEPT !.stages =
                        [n \in Range(StageNames) |->
                            [obj.stages[n] EXCEPT !.is_fit = g[n]]]]
    /\ last' = [NoCall EXCEPT !.op = "other_pipe"]
    /\ UNCHANGED <<fitted, clears_first>>

Next ==
    \/ CallFit
    \/ CallTransform
    \/ CallPredict
    \/ CallFitTransform
    \/ CallBenchmark
    \/ CallDigest
    \/ GetProperty
    \/ OtherPipeFits

Spec == Init /\ [][Next]_vars

(***************************************************************************)
(* Properties.                                                             *)
(***************************************************************************)
IsPipe == obj.kind = "MatPipe"

GoodKinds == {"TestTransformerGood", "TestAdaptorGood"}

BadKinds == {"TestTransformerBad", "TestAdaptorBad"}

\* The methods decorated with @check_fitted, and AutoMLAdaptor.transform,
\* which is the decorated predict.
CheckFittedOps(kind) ==
    CASE kind = "TestTransformerGood" -> {"transform"}
      [] kind = "TestAdaptorGood" -> {"transform", "predict"}
      [] kind = "MatPipe" -> {"predict", "digest"}
      [] OTHER -> {}

\* The methods a base class declares, which a subclass may leave as they are.
DeclaredOps(kind) ==
    CASE kind = "TestTransformerBad" -> {"fit", "transform", "fit_transform"}
      [] kind = "TestAdaptorBad" ->
            {"fit", "transform", "predict", "fit_transform"}
      [] kind = "MatPipe" -> {"transform"}
      [] OTHER -> {}

\* C1: a check_fitted method called on an object on which no fit,
\* fit_transform or benchmark has ever returned raises NotFittedError, and
\* the call invokes no pipeline stage.
C1_UnfittedRaisesNotFitted ==
    (last.op \in CheckFittedOps(obj.kind) /\ ~fitted) =>
        /\ last.exc = "NotFittedError"
        /\ last.calls = <<>>
        /\ last.result = NoDF

C1_Witness ==
    /\ IsPipe
    /\ last.op = "predict"
    /\ ~fitted
    /\ last.exc = "NotFittedError"

\* C3: fit_transform(df, t) returns what fit(df, t) followed by
\* transform(df, t) returns and leaves the same object state; a later fit
\* replaces the state of an earlier one, so a transformer's transform drops
\* the target of the most recent fit, not the target passed to transform.
C3_Step ==
    LET df == last'.df
        t == last'.target
        f == ObjFit(obj, df, t)
        g == ObjTransform(f.self, df, t)
    IN  /\ last'.op = "fit_transform" =>
              IF f.exc # "ok"
              THEN last'.exc = f.exc /\ obj' = f.self
              ELSE last'.exc = g.exc /\ last'.result = g.result /\ obj' = g.self
        /\ (obj.kind \in GoodKinds /\ last'.op = "fit_transform"
                /\ last'.exc = "ok") =>
              /\ obj'.target = t
              /\ last'.result = DropColumn(df, t)
        /\ (obj.kind \in GoodKinds /\ last'.op = "transform"
                /\ last'.exc = "ok") =>
              /\ last'.result = DropColumn(df, obj.target)
              /\ obj' = obj

C3_FitTransformIsFitThenTransform == [][C3_Step]_vars

C3_Witness ==
    /\ obj.kind = "TestTransformerGood"
    /\ last.op = "fit_transform"
    /\ last.exc = "ok"
    /\ last.target = "c"
    /\ last.result.cols = {"a", "b"}

\* C4: on a subclass that leaves them as the base class declares them, fit,
\* transform, predict and fit_transform raise NotImplementedError for every
\* frame and target, and the failed call leaves the object as it was.
C4_Step ==
    last'.op \in DeclaredOps(obj.kind) =>
        /\ last'.exc = "NotImplementedError"
        /\ obj' = obj

C4_BaseMethodsNotImplemented == [][C4_Step]_vars

C4_Witness ==
    /\ obj.kind = "TestAdaptorBad"
    /\ last.op = "fit_transform"
    /\ last.exc = "NotImplementedError"

\* C5: on an adaptor, transform(df, target) is predict(df, target): the same
\* frame when predict returns, the same error when it raises
\* (NotFittedError before a fit, NotImplementedError without a predict).
C5_Step ==
    (obj.kind \in {"TestAdaptorGood", "TestAdaptorBad"}
        /\ last'.op = "transform") =>
        LET p == Predict(obj, last'.df, last'.target) IN
        /\ last'.exc = p.exc
        /\ last'.result = p.result
        /\ obj' = p.self
        /\ (obj.kind = "TestAdaptorGood" /\ ~fitted) =>
              last'.exc = "NotFittedError"
        /\ obj.kind = "TestAdaptorBad" => last'.exc = "NotImplementedError"

C5_AdaptorTransformIsPredict == [][C5_Step]_vars

C5_Witness ==
    /\ obj.kind = "TestAdaptorGood"
    /\ last.op = "transform"
    /\ last.exc = "ok"
    /\ last.result.cols = last.df.cols \ {obj.target}

\* C6: each adaptor property returns its underlying attribute when the
\* attribute has been set and raises NotImplementedError, never
\* AttributeError, when it has never been set.
C6_Underlying(prop) ==
    CASE prop = "features" -> "_features"
      [] prop = "ml_data" -> "_ml_data"
      [] prop = "best_models" -> "_best_models"
      [] prop = "backend" -> "_backend"

C6_PropertiesReturnAttribute ==
    last.op \in {"features", "ml_data", "best_models", "backend"} =>
        IF obj.kind = "TestAdaptorGood"
        THEN /\ last.exc = "ok"
             /\ last.value = obj.attrs[C6_Underlying(last.op)]
             /\ (fitted /\ last.op = "backend") =>
                    last.value = PyVal(<<"mybackend">>)
             /\ ~fitted => last.value = PyNone
        ELSE last.exc = "NotImplementedError"

C6_Witness ==
    /\ obj.kind = "TestAdaptorBad"
    /\ last.op = "backend"
    /\ last.exc = "NotImplementedError"

\* C7: MatPipe.fit runs autofeaturizer, cleaner, reducer, learner in that
\* order, each once and each on the frame the previous stage returned; the
\* learner is fitted on the reduced frame.
C7_FitRunsStagesInOrder ==
    (IsPipe /\ last.op = "fit") =>
        /\ Len(last.calls) <= Len(StageNames)
        /\ last.exc = "ok" => Len(last.calls) = Len(StageNames)
        /\ \A k \in DOMAIN last.calls :
              /\ last.calls[k].stage = StageNames[k]
              /\ last.calls[k].op =
                    (IF StageNames[k] = "learner" THEN "fit"
                     ELSE "fit_transform")
              /\ last.calls[k].df =
                    [last.df EXCEPT !.hist = SubSeq(StageNames, 1, k - 1)]
              /\ last.calls[k].target = last.target

C7_Witness ==
    /\ IsPipe
    /\ last.op = "fit"
    /\ last.exc = "ok"
    /\ last.calls[4].stage = "learner"
    /\ last.calls[4].df.hist = <<"autofeaturizer", "cleaner", "reducer">>

\* The rows the last benchmark passed to reducer.fit_transform and to
\* learner.fit, and the rows of the frame it returned.
BenchmarkFitRows ==
    UNION {Range(last.calls[k].df.rows) :
            k \in {j \in DOMAIN last.calls :
                     /\ last.calls[j].stage \in {"reducer", "learner"}
                     /\ last.calls[j].op \in {"fit", "fit_transform"}}}

BenchmarkReturned ==
    /\ IsPipe
    /\ last.op = "benchmark"
    /\ last.exc = "ok"

\* C9: in MatPipe.benchmark, for every test_spec other than 0, no row
\* returned as a test prediction is among the rows passed to
\* reducer.fit_transform or learner.fit.
C9_NoTestRowFitted ==
    (BenchmarkReturned /\ ~(last.test_spec.kind = "float" /\ last.test_spec.zero))
        => Range(last.result.rows) \cap BenchmarkFitRows = {}

\* The rows of the frame at the positions of a list.
RowsAt(df, ix) == {df.rows[ix[k] + 1] : k \in DOMAIN ix}

\* C10: with a list of row positions as test_spec, benchmark's test set is
\* exactly the rows at those positions and its training set exactly the
\* remaining rows: disjoint, and together every row once.
C10_PositionsSplitRows ==
    (BenchmarkReturned /\ last.test_spec.kind = "positions") =>
        /\ Range(last.result.rows) = RowsAt(last.df, last.test_spec.ix)
        /\ BenchmarkFitRows =
              Range(last.df.rows) \ RowsAt(last.df, last.test_spec.ix)

\* The frames the last benchmark passed to the given operation of a stage.
BenchmarkCalls(stage, op) ==
    {last.calls[k].df : k \in {j \in DOMAIN last.calls :
                                  /\ last.calls[j].stage = stage
                                  /\ last.calls[j].op = op}}

\* C11: benchmark with test_spec = 0 fits the reducer and the learner on
\* every row of the cleaned frame, transforms no test frame and returns the
\* predictions made on all these rows; with a nonzero float it returns the
\* predictions for the test rows only, the rows left out of the fit.
C11_ZeroIsCVOnly ==
    (BenchmarkReturned /\ last.test_spec.kind = "float") =>
        /\ "predicted" \in last.result.cols
        /\ \A d \in BenchmarkCalls("reducer", "fit_transform")
                     \cup BenchmarkCalls("learner", "fit") :
              IF last.test_spec.zero
              THEN d.rows = last.df.rows
              ELSE Range(d.rows) = Range(last.df.rows) \ Range(last.result.rows)
        /\ IF last.test_spec.zero
           THEN /\ BenchmarkCalls("reducer", "transform") = {}
                /\ last.result.rows = last.df.rows
                /\ last.calls[Len(last.calls)].df.rows = last.df.rows
           ELSE /\ \A d \in BenchmarkCalls("reducer", "transform") :
                      d.rows = last.result.rows
                /\ BenchmarkCalls("reducer", "transform") # {}
                /\ Range(last.result.rows) \cap BenchmarkFitRows = {}

C11_Witness ==
    /\ BenchmarkReturned
    /\ last.test_spec = FloatSpec(TRUE)
    /\ Len(last.result.rows) = MaxRows
    /\ BenchmarkFitRows = Range(last.df.rows)

(***************************************************************************)
(* Featurize (matbench/featurize.py).  Here a frame is a function from its *)
(* column labels to what each column holds: a column of the input data, the *)
(* Composition objects made from such a column, or the values a featurizer  *)
(* computed from one.  A Python list argument is a sequence; an argument    *)
(* left at None is PyNoList.                                                *)
(***************************************************************************)
FCols == {"formula", "composition", "gap", "A1"}

InputColumn(c) == [made |-> "input", of |-> c]

Frame(cols) == [c \in cols |-> InputColumn(c)]

PyList(items) == [kind |-> "list", items |-> items]

PyNoList == [kind |-> "None", items |-> <<>>]

\* df[labels]
SelectColumns(df, labels) == [c \in labels |-> df[c]]

\* df.drop(labels, axis=1), every label being a column of df
DropColumns(df, labels) == [c \in (DOMAIN df) \ labels |-> df[c]]

\* df[label] = column
SetColumn(df, label, column) ==
    [c \in (DOMAIN df) \cup {label} |-> IF c = label THEN column ELSE df[c]]

NoFeaturize == [kind |-> "None"]

\* The outcome of a Featurize call: the object after it, the exception, and
\* the frame the caller passed in as it is after the call.
FRet(self, exc, df) == [self |-> self, exc |-> exc, df |-> df]

Featurize_init_unchecked(df, target_cols, ignore_cols) ==
    IF ~(Range(target_cols.items) \subseteq DOMAIN df)
    THEN FRet(NoFeaturize, "KeyError", df)
    ELSE IF ignore_cols.kind = "None" THEN FRet(NoFeaturize, "TypeError", df)
    ELSE IF ~(Range(ignore_cols.items) \subseteq DOMAIN df)
    THEN FRet(NoFeaturize, "KeyError", df)
    ELSE FRet([kind |-> "Featurize",
               target_df |-> SelectColumns(df, Range(target_cols.items)),
               df |-> DropColumns(df, Range(target_cols.items)
                                        \cup Range(ignore_cols.items)),
               ignore_cols |-> ignore_cols],
              "ok", df)

\* Featurize.__init__, lines 22-28.  A constructor that raises binds no
\* object.  target_cols + ignore_cols is a TypeError when ignore_cols is
\* None; df.drop raises KeyError for a label that is not a column.
Featurize_init(df, target_cols, ignore_cols) ==
    IF \E k \in DOMAIN target_cols.items : target_cols.items[k] \notin DOMAIN df
    THEN FRet(NoFeaturize, "MatbenchError", df)
    ELSE IF ignore_cols.kind = "None" THEN FRet(NoFeaturize, "TypeError", df)
    ELSE IF ~(Range(ignore_cols.items) \subseteq DOMAIN df)
    THEN FRet(NoFeaturize, "KeyError", df)
    ELSE FRet([kind |-> "Featurize",
               target_df |-> SelectColumns(df, Range(target_cols.items)),
               df |-> DropColumns(df, Range(target_cols.items)
                                        \cup Range(ignore_cols.items)),
               ignore_cols |-> ignore_cols],
              "ok", df)

\* The outcome of a method of a Featurize object.
MRet(self, exc) == [self |-> self, exc |-> exc]

\* pymatgen's Composition applied to every entry of a column
Composition(column) == [made |-> "Composition", of |-> column]

\* The labels of the features the preset featurizers compute.
FeatureLabels == {"avg ionic char"}

\* MultipleFeaturizer.featurize_dataframe(df, col_id): the frame with one
\* column per feature label computed from column col_id.  The featurizer
\* first refuses, with ValueError, a frame that already has a column with
\* one of its feature labels, so a frame featurized once cannot be
\* featurized again; then reading column col_id is a KeyError when the
\* frame has no such column.
featurize_dataframe(df, col_id) ==
    IF FeatureLabels \cap DOMAIN df # {} THEN [exc |-> "ValueError", df |-> df]
    ELSE IF col_id \notin DOMAIN df THEN [exc |-> "KeyError", df |-> df]
    ELSE [exc |-> "ok",
          df |-> [c \in (DOMAIN df) \cup FeatureLabels |->
                    IF c \in FeatureLabels
                    THEN [made |-> "featurizer", of |-> df[col_id]]
                    ELSE df[c]]]

\* Featurize.featurize_formula, lines 53-62.  The composition column is
\* written into self.df before featurize_dataframe is called, so it stays
\* there when that call raises (ValueError on a frame already featurized,
\* KeyError without a 'composition' column); col_id is the literal
\* 'composition'.
featurize_formula(self, compcol) ==
    IF compcol \notin DOMAIN self.df /\ "formula" \notin DOMAIN self.df
    THEN MRet(self, "KeyError")
    ELSE LET df1 == IF compcol \in DOMAIN self.df THEN self.df
                    ELSE SetColumn(self.df, compcol,
                                   Composition(self.df["formula"]))
             f == featurize_dataframe(df1, "composition")
         IN  IF f.exc # "ok" THEN MRet([self EXCEPT !.df = df1], f.exc)
             ELSE MRet([self EXCEPT !.df = DropColumns(f.df, {compcol})], "ok")

\* Featurize.featurize_structure, lines 65-74: featurize_dataframe is called
\* without the frame, which is a TypeError.
featurize_structure(self) == MRet(self, "TypeError")

\* One turn of the loop of featurize_columns, lines 41-50.
FeaturizeColumn(st, column) ==
    IF st.exc # "ok" THEN st
    ELSE IF column = "formula" THEN featurize_formula(st.self, "composition")
    ELSE IF column = "structure" THEN featurize_structure(st.self)
    ELSE IF column \notin DOMAIN st.self.df THEN MRet(st.self, "MatbenchError")
    ELSE st

\* Featurize.featurize_columns, lines 31-50
featurize_columns(self, input_cols) ==
    LET cols == IF input_cols.items = <<>> THEN <<"formula">>
                ELSE input_cols.items
        F[k \in 0..Len(cols)] ==
            IF k = 0 THEN MRet(self, "ok") ELSE FeaturizeColumn(F[k - 1], cols[k])
    IN  F[Len(cols)]

\* Featurize.get_train_target, lines 77-78
get_train_target(self) == [train |-> self.df, target |-> self.target_df]

(***************************************************************************)
(* The Featurize specification: a caller holds a frame, constructs a       *)
(* Featurize from it and calls its methods in any order.  last keeps the   *)
(* caller's frame and the constructor's arguments next to the last call.   *)
(***************************************************************************)
MaxCols == 2

\* The lists of at most n distinct labels
Lists(labels, n) ==
    {q \in UNION {[1..k -> labels] : k \in 0..n} :
        \A i, j \in DOMAIN q : i # j => q[i] # q[j]}

InputColLists ==
    {PyNoList} \cup {PyList(<<c>>) : c \in FCols \cup {"structure"}}
    \cup {PyList(<<"formula", "gap">>)}

NoFeaturizeCall ==
    [op |-> "None", exc |-> "ok", df |-> Frame({}), target_cols |-> PyNoList,
     ignore_cols |-> PyNoList, arg |-> PyNoList]

InitFeaturize ==
    /\ obj = NoFeaturize
    /\ \E cols \in SUBSET FCols : last = [NoFeaturizeCall EXCEPT !.df = Frame(cols)]
    /\ fitted = FALSE
    /\ clears_first = FALSE

\* The constructor call; a behaviour follows one construction.
Construct ==
    /\ obj = NoFeaturize
    /\ last.op = "None"
    /\ \E target_cols \in {PyList(q) : q \in Lists(FCols, MaxCols)} :
       \E ignore_cols \in {PyNoList} \cup {PyList(q) : q \in Lists(FCols, MaxCols)} :
            LET r == Featurize_init(last.df, target_cols, ignore_cols) IN
            /\ obj' = r.self
            /\ last' = [op |-> "__init__", exc |-> r.exc, df |-> r.df,
                        target_cols |-> target_cols,
                        ignore_cols |-> ignore_cols, arg |-> PyNoList]
    /\ UNCHANGED <<fitted, clears_first>>

CallFeaturizeColumns ==
    /\ obj # NoFeaturize
    /\ \E input_cols \in InputColLists :
            LET r == featurize_columns(obj, input_cols) IN
            /\ obj' = r.self
            /\ last' = [last EXCEPT !.op = "featurize_columns", !.exc = r.exc,
                                    !.arg = input_cols]
    /\ UNCHANGED <<fitted, clears_first>>

CallFeaturizeFormula ==
    /\ obj # NoFeaturize
    /\ \E compcol \in FCols :
            LET r == featurize_formula(obj, compcol) IN
            /\ obj' = r.self
            /\ last' = [last EXCEPT !.op = "featurize_formula", !.exc = r.exc,
                                    !.arg = PyList(<<compcol>>)]
    /\ UNCHANGED <<fitted, clears_first>>

CallFeaturizeStructure ==
    /\ obj # NoFeaturize
    /\ LET r == featurize_structure(obj) IN
            /\ obj' = r.self
            /\ last' = [last EXCEPT !.op = "featurize_structure", !.exc = r.exc,
                                    !.arg = PyNoList]
    /\ UNCHANGED <<fitted, clears_first>>

NextFeaturize ==
    \/ Construct
    \/ CallFeaturizeColumns
    \/ CallFeaturizeFormula
    \/ CallFeaturizeStructure

SpecFeaturize == InitFeaturize /\ [][NextFeaturize]_vars

TargetLabels == Range(last.target_cols.items)

IgnoredLabels == Range(last.ignore_cols.items)

\* C12: a constructor call whose target_cols names a column the frame does
\* not have raises MatbenchError, binds no Featurize object, and leaves the
\* caller's frame as it was.
C12_Step ==
    (last'.op = "__init__" /\ last.op = "None"
        /\ ~(Range(last'.target_cols.items) \subseteq DOMAIN last.df)) =>
        /\ last'.exc = "MatbenchError"
        /\ obj' = NoFeaturize
        /\ last'.df = last.df

C12_MissingTargetRaises == [][C12_Step]_vars

C12_Witness ==
    /\ last.op = "__init__"
    /\ last.exc = "MatbenchError"
    /\ last.target_cols = PyList(<<"formula", "gap">>)
    /\ DOMAIN last.df = {"formula", "A1"}
    /\ last.ignore_cols = PyList(<<"A1">>)

\* C13: a constructor call with every target column present and ignore_cols
\* left at None returns an object whose training frame is the caller's frame
\* without the target columns; with ignore_cols set, a constructor call that
\* returns excludes exactly the target and the ignored columns.
C13_IgnoreColsOptional ==
    (last.op = "__init__" /\ TargetLabels \subseteq DOMAIN last.df) =>
        IF last.ignore_cols = PyNoList
        THEN /\ last.exc = "ok"
             /\ obj # NoFeaturize
             /\ DOMAIN get_train_target(obj).train = (DOMAIN last.df) \ TargetLabels
        ELSE last.exc = "ok" =>
                DOMAIN get_train_target(obj).train =
                    (DOMAIN last.df) \ (TargetLabels \cup IgnoredLabels)

\* C14: whenever a Featurize object exists, the training frame
\* get_train_target returns has no target column and no ignored column, and
\* the target frame it returns is the caller's frame restricted to the
\* target columns.
C14_TargetsKeptApart ==
    obj # NoFeaturize =>
        /\ DOMAIN get_train_target(obj).train
                \cap (TargetLabels \cup IgnoredLabels) = {}
        /\ get_train_target(obj).target = SelectColumns(last.df, TargetLabels)

(***************************************************************************)
(* Dataset meta-features (matbench/metalearning/metafeatures.py).  A       *)
(* dataset X is a sequence of entries, each a formula with its structure:   *)
(* the set of element symbols of the formula and whether the structure is   *)
(* ordered.  A meta-feature value is the exception raised or a number,      *)
(* kept as numerator and denominator so that a / b is not rounded.          *)
(***************************************************************************)
Symbols == {"Fe", "Al", "O"}

Metals == {"Fe", "Al"}

TransitionMetals == {"Fe"}

Entry(elements, is_ordered) == [elements |-> elements, is_ordered |-> is_ordered]

\* FormulaStatistics(X).calc(): per formula its elements, their number and
\* its category (1 all metal, 2 metal with nonmetal, 3 all nonmetal).
FormulaStatistics(X) ==
    [k \in DOMAIN X |->
        [elements |-> X[k].elements,
         n_elements |-> Cardinality(X[k].elements),
         major_formula_category |->
            IF X[k].elements \subseteq Metals THEN 1
            ELSE IF X[k].elements \cap Metals = {} THEN 3 ELSE 2,
         contain_trans_metal |-> X[k].elements \cap TransitionMetals # {}]]

\* StructureStatistics(X).calc(): per structure its sites (one per element
\* here), whether it is ordered, and its elements.
StructureStatistics(X) ==
    [k \in DOMAIN X |->
        [elements |-> X[k].elements,
         n_elements |-> Cardinality(X[k].elements),
         n_sites |-> Cardinality(X[k].elements),
         is_ordered |-> X[k].is_ordered]]

IntVal(n) == [exc |-> "ok", num |-> n, den |-> 1]

MFRaise(exc) == [exc |-> exc, num |-> 0, den |-> 0]

\* num / den
Div(num, den) ==
    IF den = 0 THEN MFRaise("ZeroDivisionError")
    ELSE [exc |-> "ok", num |-> num, den |-> den]

\* sum([f for stat in stats.values()]) for a function f of the position
SumOver(f) ==
    LET n == Len(f)
        F[k \in 0..n] == IF k = 0 THEN 0 ELSE F[k - 1] + f[k]
    IN  F[n]

\* max(list) and min(list); ValueError on an empty list
MaxOver(f) ==
    IF f = <<>> THEN MFRaise("ValueError")
    ELSE IntVal(CHOOSE m \in Range(f) : \A x \in Range(f) : x <= m)

MinOver(f) ==
    IF f = <<>> THEN MFRaise("ValueError")
    ELSE IntVal(CHOOSE m \in Range(f) : \A x \in Range(f) : m <= x)

CountCategory(stats, category) ==
    SumOver([k \in DOMAIN stats |->
                IF stats[k].major_formula_category = category THEN 1 ELSE 0])

\* lines 92-94
NumberOfFormulas(X, stats) == IntVal(Len(X))

\* lines 97-102
PercentOfAllMetal(X, stats) == Div(CountCategory(stats, 1), Len(stats))

\* lines 105-110
PercentOfMetalNonmetal(X, stats) == Div(CountCategory(stats, 2), Len(stats))

PercentOfAllNonmetal_miscounted(X, stats) ==
    Div(CountCategory(stats, 2), Len(stats))

\* lines 113-118
PercentOfAllNonmetal(X, stats) == Div(CountCategory(stats, 3), Len(stats))

\* lines 121-127
NumberOfDifferentElements(X, stats) ==
    IntVal(Cardinality(UNION {stats[k].elements : k \in DOMAIN stats}))

\* lines 130-134
AvgNumberOfElements(X, stats) ==
    Div(SumOver([k \in DOMAIN stats |-> stats[k].n_elements]), Len(stats))

\* lines 137-141
MaxNumberOfElements(X, stats) ==
    MaxOver([k \in DOMAIN stats |-> stats[k].n_elements])

\* lines 144-148
MinNumberOfElements(X, stats) ==
    MinOver([k \in DOMAIN stats |-> stats[k].n_elements])

\* lines 160-162
NumberOfStructures(X, stats) == IntVal(Len(X))

\* lines 165-169
PercentOfOrderedStructures(X, stats) ==
    Div(SumOver([k \in DOMAIN stats |-> IF stats[k].is_ordered THEN 1 ELSE 0]),
        Len(stats))

\* lines 172-176
AvgNumberOfSites(X, stats) ==
    Div(SumOver([k \in DOMAIN stats |-> stats[k].n_sites]), Len(stats))

\* lines 179-183
MaxNumberOfSites(X, stats) ==
    MaxOver([k \in DOMAIN stats |-> stats[k].n_sites])

\* lines 186-193: the symbols of Composition(struct.formula).elements over
\* the structures of X
NumberOfDifferentElementsInStructure(X, stats) ==
    IntVal(Cardinality(UNION {X[k].elements : k \in DOMAIN X}))

\* lines 196-204: the class bound to each key
formula_metafeatures ==
    [number_of_formulas |-> "NumberOfFormulas",
     percent_of_all_metal |-> "PercentOfAllMetal",
     percent_of_metal_nonmetal |-> "PercentOfMetalNonmetal",
     percent_of_all_nonmetal |-> "PercentOfAllNonmetal",
     number_of_different_elements |-> "NumberOfDifferentElements",
     avg_number_of_elements |-> "AvgNumberOfElements",
     max_number_of_elements |-> "MaxNumberOfElements",
     min_number_of_elements |-> "MinNumberOfElements"]

\* lines 206-211
structure_metafeatures ==
    [number_of_structures |-> "NumberOfStructures",
     percent_of_ordered_structures |-> "PercentOfOrderedStructures",
     avg_number_of_sites |-> "AvgNumberOfSites",
     max_number_of_sites |-> "MaxNumberOfSites",
     number_of_different_elements_in_structures |-> "NumberOfDifferentElements"]

\* cls(dependence).calc(X, y) for the class of that name
Calc(cls, X, stats) ==
    CASE cls = "NumberOfFormulas" -> NumberOfFormulas(X, stats)
      [] cls = "PercentOfAllMetal" -> PercentOfAllMetal(X, stats)
      [] cls = "PercentOfMetalNonmetal" -> PercentOfMetalNonmetal(X, stats)
      [] cls = "PercentOfAllNonmetal" -> PercentOfAllNonmetal(X, stats)
      [] cls = "NumberOfDifferentElements" -> NumberOfDifferentElements(X, stats)
      [] cls = "AvgNumberOfElements" -> AvgNumberOfElements(X, stats)
      [] cls = "MaxNumberOfElements" -> MaxNumberOfElements(X, stats)
      [] cls = "MinNumberOfElements" -> MinNumberOfElements(X, stats)
      [] cls = "NumberOfStructures" -> NumberOfStructures(X, stats)
      [] cls = "PercentOfOrderedStructures" ->
            PercentOfOrderedStructures(X, stats)
      [] cls = "AvgNumberOfSites" -> AvgNumberOfSites(X, stats)
      [] cls = "MaxNumberOfSites" -> MaxNumberOfSites(X, stats)
      [] cls = "NumberOfDifferentElementsInStructure" ->
            NumberOfDifferentElementsInStructure(X, stats)

\* The registry of a group of meta-features and the helper it depends on.
Registry(group) ==
    IF group = "formula" THEN formula_metafeatures ELSE structure_metafeatures

Dependence(group, X) ==
    IF group = "formula" THEN FormulaStatistics(X) ELSE StructureStatistics(X)

\* The value of the meta-feature registered under a key.
MetaFeatureValue(group, key, X) ==
    Calc(Registry(group)[key], X, Dependence(group, X))

(***************************************************************************)
(* The meta-feature specification: a dataset, on which any registered      *)
(* meta-feature is computed.                                               *)
(***************************************************************************)
MaxFormulas == 2

Entries == {Entry(e, o) : e \in (SUBSET Symbols) \ {{}}, o \in BOOLEAN}

Datasets == UNION {[1..n -> Entries] : n \in 0..MaxFormulas}

NoMetaCall ==
    [op |-> "None", group |-> "None", key |-> "None", cls |-> "None",
     value |-> IntVal(0), exc |-> "ok"]

InitMeta ==
    /\ \E X \in Datasets : obj = [kind |-> "dataset", X |-> X]
    /\ last = NoMetaCall
    /\ fitted = FALSE
    /\ clears_first = FALSE

ComputeMetaFeature ==
    /\ \E group \in {"formula", "structure"} :
       \E key \in DOMAIN Registry(group) :
            LET v == MetaFeatureValue(group, key, obj.X) IN
            last' = [NoMetaCall EXCEPT !.op = "metafeature", !.group = group,
                                       !.key = key, !.cls = Registry(group)[key],
                                       !.value = v, !.exc = v.exc]
    /\ UNCHANGED <<obj, fitted, clears_first>>

NextMeta ==
    \/ ComputeMetaFeature

SpecMeta == InitMeta /\ [][NextMeta]_vars

\* The meta-feature class whose name matches a registry key.
MatchingClass ==
    [number_of_formulas |-> "NumberOfFormulas",
     percent_of_all_metal |-> "PercentOfAllMetal",
     percent_of_metal_nonmetal |-> "PercentOfMetalNonmetal",
     percent_of_all_nonmetal |-> "PercentOfAllNonmetal",
     number_of_different_elements |-> "NumberOfDifferentElements",
     avg_number_of_elements |-> "AvgNumberOfElements",
     max_number_of_elements |-> "MaxNumberOfElements",
     min_number_of_elements |-> "MinNumberOfElements",
     number_of_structures |-> "NumberOfStructures",
     percent_of_ordered_structures |-> "PercentOfOrderedStructures",
     avg_number_of_sites |-> "AvgNumberOfSites",
     max_number_of_sites |-> "MaxNumberOfSites",
     number_of_different_elements_in_structures |->
        "NumberOfDifferentElementsInStructure"]

\* C17: every key of the two registries is bound to the meta-feature class
\* of the matching name, and the value computed under
\* 'number_of_different_elements_in_structures' is the number of distinct
\* element symbols over the structures of the dataset.
C17_KeysBoundToMatchingClass ==
    last.op = "metafeature" =>
        /\ last.cls = MatchingClass[last.key]
        /\ last.key = "number_of_different_elements_in_structures" =>
              last.value =
                  NumberOfDifferentElementsInStructure(obj.X, <<>>)

\* The three category counts and the element-count meta-features of the
\* dataset at hand.
C18_Stats == FormulaStatistics(obj.X)

C18_Percents ==
    <<MetaFeatureValue("formula", "percent_of_all_metal", obj.X),
      MetaFeatureValue("formula", "percent_of_metal_nonmetal", obj.X),
      MetaFeatureValue("formula", "percent_of_all_nonmetal", obj.X)>>

\* C18: on a non-empty dataset whose formulas all have category 1, 2 or 3,
\* the three percentages are counts over the number of formulas, each
\* between 0 and that number, and the counts sum to it; and
\* min_number_of_elements * N <= sum of n_elements <= max_number_of_elements
\* * N, the sum being the numerator of avg_number_of_elements.  The value a
\* call returns is the value of its meta-feature.
C18_FractionsSumToOne ==
    (/\ obj.X # <<>>
     /\ \A k \in DOMAIN C18_Stats :
            C18_Stats[k].major_formula_category \in {1, 2, 3}) =>
        LET N == Len(obj.X)
            avg == MetaFeatureValue("formula", "avg_number_of_elements", obj.X)
            max == MetaFeatureValue("formula", "max_number_of_elements", obj.X)
            min == MetaFeatureValue("formula", "min_number_of_elements", obj.X)
        IN  /\ \A i \in 1..3 :
                  /\ C18_Percents[i].exc = "ok"
                  /\ C18_Percents[i].den = N
                  /\ C18_Percents[i].num \in 0..N
            /\ C18_Percents[1].num + C18_Percents[2].num
                  + C18_Percents[3].num = N
            /\ avg.exc = "ok" /\ max.exc = "ok" /\ min.exc = "ok"
            /\ avg.den = N
            /\ min.num * N <= avg.num
            /\ avg.num <= max.num * N
            /\ (last.op = "metafeature" /\ last.group = "formula") =>
                  last.value = MetaFeatureValue("formula", last.key, obj.X)

C18_Witness ==
    /\ Len(obj.X) = 2
    /\ last.op = "metafeature"
    /\ last.key = "percent_of_all_nonmetal"
    /\ last.value = Div(1, 2)
    /\ C18_Percents[1].num = 1
    /\ MetaFeatureValue("formula", "avg_number_of_elements", obj.X) = Div(3, 2)
    /\ MetaFeatureValue("formula", "min_number_of_elements", obj.X) = IntVal(1)
    /\ MetaFeatureValue("formula", "max_number_of_elements", obj.X) = IntVal(2)

====
